---- MODULE Spec2Model ----
(***************************************************************************)
(* The blogicum blog: stored posts, categories and comments, the request   *)
(* handlers of blog/views.py and users/views.py, the visibility filters    *)
(* and the pagination helper.  Handlers run one request at a time; the     *)
(* response of the request being served is held in resp until it is sent.  *)
(***************************************************************************)
EXTENDS Integers, Sequences, FiniteSets, TLC

\* ------------------------------------------------------------------ bounds
MaxPosts == 2
MaxComments == 1
MaxTime == 1
MaxItems == 7
MaxPerPage == 5

\* ---------------------------------------------------------------- constants
POSTS_PER_PAGE == 5

None == "None"
Anonymous == "AnonymousUser"
Users == {"u1", "u2"}
Requesters == Users \cup {Anonymous}
Usernames == Users \cup {"nobody"}
Slugs == {"c1"}
RequestSlugs == Slugs \cup {"c0"}
Texts == {"a", "b"}
Methods == {"GET", "POST", "DELETE"}
Times == 0..MaxTime
PostIds == 1..MaxPosts
CommentIds == 1..MaxComments

VARIABLES
    now,            \* timezone.now() of the request being served
    categories,     \* Category rows by slug: [is_published]
    posts,          \* Post rows by id: [author, is_published, pub_date, category]
    comments,       \* Comment rows by id: [author, post, text]
    nextPostId,     \* the next primary key of Post
    nextCommentId,  \* the next primary key of Comment
    resp,           \* the response of the request being served
    pg              \* a call of paginate_queryset: its arguments and its page

vars == <<now, categories, posts, comments, nextPostId, nextCommentId, resp, pg>>
store == <<now, categories, posts, comments, nextPostId, nextCommentId>>

\* ------------------------------------------------------------------ helpers
Max(a, b) == IF a >= b THEN a ELSE b

Without(f, k) == [x \in DOMAIN f \ {k} |-> f[x]]

With(f, k, v) == [x \in DOMAIN f \cup {k} |-> IF x = k THEN v ELSE f[x]]

Range(s) == {s[i] : i \in 1..Len(s)}

\* ------------------------------------------------------------- pagination
Missing == [kind |-> "missing", n |-> 0]
NotANumber == [kind |-> "text", n |-> 0]
PageInt(k) == [kind |-> "int", n |-> k]

NumPages(count, per_page) == (Max(1, count) + per_page - 1) \div per_page

ValidateNumber(param, count, per_page) ==
    IF param.kind # "int"
    THEN [ok |-> FALSE, err |-> "PageNotAnInteger", n |-> 0]
    ELSE IF param.n < 1
    THEN [ok |-> FALSE, err |-> "EmptyPage", n |-> 0]
    ELSE IF param.n > NumPages(count, per_page)
    THEN [ok |-> FALSE, err |-> "EmptyPage", n |-> 0]
    ELSE [ok |-> TRUE, err |-> None, n |-> param.n]

\* Mutant: the slice starts one page too far.
Page_shifted(object_list, per_page, number) ==
    LET count == Len(object_list)
        bottom == number * per_page
        top == IF bottom + per_page >= count THEN count ELSE bottom + per_page
    IN  [status |-> "ok", number |-> number,
         items |-> SubSeq(object_list, bottom + 1, top)]

Page(object_list, per_page, number) ==
    LET count == Len(object_list)
        bottom == (number - 1) * per_page
        top == IF bottom + per_page >= count THEN count ELSE bottom + per_page
    IN  IF number < 1 \/ number > NumPages(count, per_page)
        THEN [status |-> "EmptyPage", number |-> number, items |-> <<>>]
        ELSE [status |-> "ok", number |-> number,
              items |-> SubSeq(object_list, bottom + 1, top)]

\* Mutant: every invalid number falls back to page 1.
GetPage_first(object_list, per_page, param) ==
    LET v == ValidateNumber(param, Len(object_list), per_page)
    IN  Page(object_list, per_page, IF v.ok THEN v.n ELSE 1)

GetPage(object_list, per_page, param) ==
    LET count == Len(object_list)
        v == ValidateNumber(param, count, per_page)
        number == IF v.ok THEN v.n
                  ELSE IF v.err = "PageNotAnInteger" THEN 1
                  ELSE NumPages(count, per_page)
    IN  Page(object_list, per_page, number)

paginate_queryset(param, queryset, per_page) == GetPage(queryset, per_page, param)

\* ------------------------------------------------------------ the queries
CategoryPublished(c) ==
    /\ c \in DOMAIN categories
    /\ categories[c].is_published

\* Mutant: the filter forgets the publication date.
get_published_posts_any_date ==
    {p \in DOMAIN posts :
        /\ posts[p].is_published
        /\ CategoryPublished(posts[p].category)}

get_published_posts ==
    {p \in DOMAIN posts :
        /\ posts[p].is_published
        /\ posts[p].pub_date <= now
        /\ CategoryPublished(posts[p].category)}

service_get_published_posts(base_queryset, filter_published) ==
    LET queryset == IF ~base_queryset.given \/ base_queryset.ids = {}
                    THEN DOMAIN posts
                    ELSE base_queryset.ids
    IN  IF filter_published
        THEN {p \in queryset :
                /\ posts[p].is_published
                /\ posts[p].pub_date <= now
                /\ CategoryPublished(posts[p].category)}
        ELSE queryset

NoBase == [given |-> FALSE, ids |-> {}]
BaseQuerysets == {NoBase} \cup {[given |-> TRUE, ids |-> B] : B \in SUBSET DOMAIN posts}

OrderByPubDateDesc(S) ==
    {s \in [1..Cardinality(S) -> S] :
        /\ \A i, j \in 1..Cardinality(S) : i < j =>
              /\ s[i] # s[j]
              /\ posts[s[i]].pub_date >= posts[s[j]].pub_date}

\* Mutant: the owner gets the filtered listing too.
ProfilePosts_filtered(viewer, user) ==
    {p \in DOMAIN posts :
        /\ posts[p].author = user
        /\ posts[p].is_published
        /\ posts[p].pub_date <= now}

ProfilePosts(viewer, user) ==
    IF viewer = user
    THEN {p \in DOMAIN posts : posts[p].author = user}
    ELSE {p \in DOMAIN posts :
            /\ posts[p].author = user
            /\ posts[p].is_published
            /\ posts[p].pub_date <= now}

\* ------------------------------------------------------------- responses
Response(view, user, target, status, list, page, form_author) ==
    [view |-> view, user |-> user, target |-> target, status |-> status,
     list |-> list, page |-> page, form_author |-> form_author]

Plain(view, user, target, status) ==
    Response(view, user, target, status, <<>>, <<>>, None)

NoResp == Plain("none", None, None, "none")

NoCall == [called |-> FALSE, object_list |-> <<>>, per_page |-> 1,
           param |-> Missing, page |-> Page(<<>>, 1, 1)]

ViewPageParams == {Missing, PageInt(0), PageInt(2)}

Init ==
    /\ now = 0
    /\ categories = <<>>
    /\ posts = <<>>
    /\ comments = <<>>
    /\ nextPostId = 1
    /\ nextCommentId = 1
    /\ resp = NoResp
    /\ pg = NoCall

Idle == resp.view = "none"

\* The response is sent and the request ends.
Respond ==
    /\ ~Idle
    /\ resp' = NoResp
    /\ UNCHANGED <<store, pg>>

Tick ==
    /\ Idle
    /\ now < MaxTime
    /\ now' = now + 1
    /\ UNCHANGED <<categories, posts, comments, nextPostId, nextCommentId, resp, pg>>

\* ------------------------------------------------------------------ admin
AdminSaveCategory(c, pub) ==
    /\ Idle
    /\ categories' = With(categories, c, [is_published |-> pub])
    /\ UNCHANGED <<now, posts, comments, nextPostId, nextCommentId, resp, pg>>

AdminDeleteCategory(c) ==
    /\ Idle
    /\ c \in DOMAIN categories
    /\ categories' = Without(categories, c)
    /\ posts' = [p \in DOMAIN posts |->
                    IF posts[p].category = c
                    THEN [posts[p] EXCEPT !.category = None]
                    ELSE posts[p]]
    /\ UNCHANGED <<now, comments, nextPostId, nextCommentId, resp, pg>>

\* ------------------------------------------------------------- read views
Index(param) ==
    /\ Idle
    /\ \E post_list \in OrderByPubDateDesc(get_published_posts) :
          resp' = Response("index", None, None, "200", post_list,
                           GetPage(post_list, POSTS_PER_PAGE, param).items, None)
    /\ UNCHANGED <<store, pg>>

PostDetail(user, post_id) ==
    /\ Idle
    /\ resp' = IF post_id \in get_published_posts
               THEN Response("post_detail", user, post_id, "200",
                             <<post_id>>, <<post_id>>, None)
               ELSE Plain("post_detail", user, post_id, "404")
    /\ UNCHANGED <<store, pg>>

CategoryPosts(category_slug, param) ==
    /\ Idle
    /\ IF CategoryPublished(category_slug)
       THEN \E post_list \in OrderByPubDateDesc(
                   {p \in get_published_posts : posts[p].category = category_slug}) :
               resp' = Response("category_posts", None, category_slug, "200", post_list,
                                GetPage(post_list, POSTS_PER_PAGE, param).items, None)
       ELSE resp' = Plain("category_posts", None, category_slug, "404")
    /\ UNCHANGED <<store, pg>>

Profile(viewer, username, param) ==
    /\ Idle
    /\ IF username \in Users
       THEN \E post_list \in OrderByPubDateDesc(ProfilePosts(viewer, username)) :
               resp' = Response("profile", viewer, username, "200", post_list,
                                paginate_queryset(param, post_list, POSTS_PER_PAGE).items,
                                None)
       ELSE resp' = Plain("profile", viewer, username, "404")
    /\ UNCHANGED <<store, pg>>

GetPublishedPostsCall(base_queryset, filter_published) ==
    /\ Idle
    /\ \E post_list \in OrderByPubDateDesc(
              service_get_published_posts(base_queryset, filter_published)) :
          resp' = Response("get_published_posts", None,
                           [base_queryset |-> base_queryset,
                            filter_published |-> filter_published],
                           "returned", post_list, post_list, None)
    /\ UNCHANGED <<store, pg>>

\* -------------------------------------------------------------- the forms
\* What a client submits to a post form; author is a field the client adds.
PostSubmissions ==
    [is_published : BOOLEAN, pub_date : Times,
     category : Slugs \cup {None}, author : Users \cup {None}]

NoSubmission == [is_published |-> FALSE, pub_date |-> 0, category |-> None, author |-> None]

\* Only a POST carries form data.
SubmissionsOf(method) == IF method = "POST" THEN PostSubmissions ELSE {NoSubmission}

\* category is a required choice among the stored categories.
PostFormIsValid(data) == data.category \in DOMAIN categories

\* Mutant: the form does not exclude author.
PostFormSave_author(instance, data) ==
    [instance EXCEPT !.is_published = data.is_published,
                     !.pub_date = data.pub_date,
                     !.category = data.category,
                     !.author = IF data.author = None THEN @ ELSE data.author]

\* PostForm excludes author: save() writes the other fields only.
PostFormSave(instance, data) ==
    [instance EXCEPT !.is_published = data.is_published,
                     !.pub_date = data.pub_date,
                     !.category = data.category]

NewPost == [author |-> None, is_published |-> TRUE, pub_date |-> 0, category |-> None]

CommentTexts == Texts \cup {""}

TextsOf(method) == IF method = "POST" THEN CommentTexts ELSE {""}

CommentFormIsValid(text) == text # ""

\* Comments of a deleted post go with it.
CommentsAfterPostDelete(pk) ==
    [c \in {x \in DOMAIN comments : comments[x].post # pk} |-> comments[c]]

\* ------------------------------------------------------------ post writes
CreatePost(user, method, data) ==
    /\ Idle
    /\ IF user = Anonymous
       THEN /\ resp' = Plain("create_post", user, None, "302:login")
            /\ UNCHANGED store
       ELSE IF method = "POST" /\ PostFormIsValid(data)
       THEN /\ nextPostId <= MaxPosts
            /\ posts' = With(posts, nextPostId,
                             [PostFormSave(NewPost, data) EXCEPT !.author = user])
            /\ nextPostId' = nextPostId + 1
            /\ resp' = Response("create_post", user, nextPostId, "302:profile",
                                <<>>, <<>>, data.author)
            /\ UNCHANGED <<now, categories, comments, nextCommentId>>
       ELSE /\ resp' = Response("create_post", user, None, "200", <<>>, <<>>, data.author)
            /\ UNCHANGED store
    /\ UNCHANGED pg

\* Mutant: the ownership test passes for everyone.
PostTestFunc_anyone(user, pk) == TRUE

\* test_func of PostUpdateView and PostDeleteView.
PostTestFunc(user, pk) == user = posts[pk].author

PostUpdate(user, pk, method, data) ==
    /\ Idle
    /\ IF user = Anonymous
       THEN /\ resp' = Plain("edit_post", user, pk, "302:login")
            /\ UNCHANGED store
       ELSE IF pk \notin DOMAIN posts
       THEN /\ resp' = Plain("edit_post", user, pk, "404")
            /\ UNCHANGED store
       ELSE IF ~PostTestFunc(user, pk)
       THEN /\ resp' = Plain("edit_post", user, pk, "403")
            /\ UNCHANGED store
       ELSE IF method = "DELETE"
       THEN /\ resp' = Plain("edit_post", user, pk, "405")
            /\ UNCHANGED store
       ELSE IF method = "POST" /\ PostFormIsValid(data)
       THEN /\ posts' = [posts EXCEPT ![pk] = PostFormSave(@, data)]
            /\ resp' = Response("edit_post", user, pk, "302:post_detail",
                                <<>>, <<>>, data.author)
            /\ UNCHANGED <<now, categories, comments, nextPostId, nextCommentId>>
       ELSE /\ resp' = Response("edit_post", user, pk, "200", <<>>, <<>>, data.author)
            /\ UNCHANGED store
    /\ UNCHANGED pg

PostDelete(user, pk, method) ==
    /\ Idle
    /\ IF user = Anonymous
       THEN /\ resp' = Plain("delete_post", user, pk, "302:login")
            /\ UNCHANGED store
       ELSE IF pk \notin DOMAIN posts
       THEN /\ resp' = Plain("delete_post", user, pk, "404")
            /\ UNCHANGED store
       ELSE IF ~PostTestFunc(user, pk)
       THEN /\ resp' = Plain("delete_post", user, pk, "403")
            /\ UNCHANGED store
       ELSE IF method \in {"POST", "DELETE"}
       THEN /\ posts' = Without(posts, pk)
            /\ comments' = CommentsAfterPostDelete(pk)
            /\ resp' = Plain("delete_post", user, pk, "302:index")
            /\ UNCHANGED <<now, categories, nextPostId, nextCommentId>>
       ELSE /\ resp' = Plain("delete_post", user, pk, "200")
            /\ UNCHANGED store
    /\ UNCHANGED pg

\* --------------------------------------------------------- comment writes
AddComment(user, post_id, method, text) ==
    /\ Idle
    /\ IF method # "POST"
       THEN /\ resp' = Plain("add_comment", user, post_id, "405")
            /\ UNCHANGED store
       ELSE IF user = Anonymous
       THEN /\ resp' = Plain("add_comment", user, post_id, "302:login")
            /\ UNCHANGED store
       ELSE IF post_id \notin DOMAIN posts
       THEN /\ resp' = Plain("add_comment", user, post_id, "404")
            /\ UNCHANGED store
       ELSE IF CommentFormIsValid(text)
       THEN /\ nextCommentId <= MaxComments
            /\ comments' = With(comments, nextCommentId,
                                [author |-> user, post |-> post_id, text |-> text])
            /\ nextCommentId' = nextCommentId + 1
            /\ resp' = Plain("add_comment", user, post_id, "302:post_detail")
            /\ UNCHANGED <<now, categories, posts, nextPostId>>
       ELSE /\ resp' = Plain("add_comment", user, post_id, "302:post_detail")
            /\ UNCHANGED store
    /\ UNCHANGED pg

\* test_func of CommentUpdateView.
CommentTestFunc(user, pk) == user = comments[pk].author

\* The route carries post_id, which the view does not read.
CommentUpdate(user, post_id, pk, method, text) ==
    /\ Idle
    /\ IF user = Anonymous
       THEN /\ resp' = Plain("edit_comment", user, pk, "302:login")
            /\ UNCHANGED store
       ELSE IF pk \notin DOMAIN comments
       THEN /\ resp' = Plain("edit_comment", user, pk, "404")
            /\ UNCHANGED store
       ELSE IF ~CommentTestFunc(user, pk)
       THEN /\ resp' = Plain("edit_comment", user, pk, "403")
            /\ UNCHANGED store
       ELSE IF method = "DELETE"
       THEN /\ resp' = Plain("edit_comment", user, pk, "405")
            /\ UNCHANGED store
       ELSE IF method = "POST" /\ CommentFormIsValid(text)
       THEN /\ comments' = [comments EXCEPT ![pk].text = text]
            /\ resp' = Plain("edit_comment", user, pk, "302:post_detail")
            /\ UNCHANGED <<now, categories, posts, nextPostId, nextCommentId>>
       ELSE /\ resp' = Plain("edit_comment", user, pk, "200")
            /\ UNCHANGED store
    /\ UNCHANGED pg

\* Mutant: the ownership check is missing.
CommentDeleteDenied_never(user, comment_id) == FALSE

\* The ownership check of delete_comment.
CommentDeleteDenied(user, comment_id) == user # comments[comment_id].author

DeleteComment(user, post_id, comment_id, method) ==
    /\ Idle
    /\ IF user = Anonymous
       THEN /\ resp' = Plain("delete_comment", user, comment_id, "302:login")
            /\ UNCHANGED store
       ELSE IF comment_id \notin DOMAIN comments
       THEN /\ resp' = Plain("delete_comment", user, comment_id, "404")
            /\ UNCHANGED store
       ELSE IF comments[comment_id].post # post_id
       THEN /\ resp' = Plain("delete_comment", user, comment_id, "404")
            /\ UNCHANGED store
       ELSE IF CommentDeleteDenied(user, comment_id)
       THEN /\ resp' = Plain("delete_comment", user, comment_id, "403")
            /\ UNCHANGED store
       ELSE IF method = "POST"
       THEN /\ comments' = Without(comments, comment_id)
            /\ resp' = Plain("delete_comment", user, comment_id, "302:post_detail")
            /\ UNCHANGED <<now, categories, posts, nextPostId, nextCommentId>>
       ELSE /\ resp' = Plain("delete_comment", user, comment_id, "200")
            /\ UNCHANGED store
    /\ UNCHANGED pg

Next ==
    \/ Respond
    \/ Tick
    \/ \E c \in Slugs, pub \in BOOLEAN : AdminSaveCategory(c, pub)
    \/ \E c \in Slugs : AdminDeleteCategory(c)
    \/ \E param \in ViewPageParams : Index(param)
    \/ \E u \in Requesters, p \in PostIds : PostDetail(u, p)
    \/ \E c \in RequestSlugs, param \in ViewPageParams : CategoryPosts(c, param)
    \/ \E v \in Requesters, u \in Usernames, param \in ViewPageParams : Profile(v, u, param)
    \/ \E B \in BaseQuerysets, f \in BOOLEAN : GetPublishedPostsCall(B, f)
    \/ \E u \in Requesters, m \in Methods : \E d \in SubmissionsOf(m) : CreatePost(u, m, d)
    \/ \E u \in Requesters, p \in PostIds, m \in Methods :
          \E d \in SubmissionsOf(m) : PostUpdate(u, p, m, d)
    \/ \E u \in Requesters, p \in PostIds, m \in Methods : PostDelete(u, p, m)
    \/ \E u \in Requesters, p \in PostIds, m \in Methods :
          \E t \in TextsOf(m) : AddComment(u, p, m, t)
    \/ \E u \in Requesters, p \in PostIds, c \in CommentIds, m \in Methods :
          \E t \in TextsOf(m) : CommentUpdate(u, p, c, m, t)
    \/ \E u \in Requesters, p \in PostIds, c \in CommentIds, m \in Methods :
          DeleteComment(u, p, c, m)

Spec == Init /\ [][Next]_vars

\* ------------------------------------------- the pagination helper alone
PageParams == {Missing, NotANumber} \cup {PageInt(k) : k \in (-1)..(MaxItems + 1)}

InitPage ==
    /\ now = 0
    /\ categories = <<>>
    /\ posts = <<>>
    /\ comments = <<>>
    /\ nextPostId = 1
    /\ nextCommentId = 1
    /\ resp = NoResp
    /\ \E n \in 0..MaxItems, s \in 1..MaxPerPage :
          pg = [NoCall EXCEPT !.object_list = [i \in 1..n |-> i], !.per_page = s]

PaginateQueryset(param) ==
    /\ pg' = [pg EXCEPT !.called = TRUE,
                        !.param = param,
                        !.page = paginate_queryset(param, pg.object_list, pg.per_page)]
    /\ UNCHANGED <<store, resp>>

NextPage == \E param \in PageParams : PaginateQueryset(param)

SpecPage == InitPage /\ [][NextPage]_vars

\* ================================================================ claims
PublishedInPast(p) == posts[p].is_published /\ posts[p].pub_date <= now

Listed == Range(resp.list)

C2_SubsetOfBase ==
    (/\ resp.view = "get_published_posts"
     /\ resp.target.filter_published
     /\ resp.target.base_queryset.given) =>
        Listed = {p \in resp.target.base_queryset.ids :
                     /\ PublishedInPast(p)
                     /\ \/ posts[p].category = None
                        \/ categories[posts[p].category].is_published}

\* C3: the detail page of a post answers its author with the post whatever
\* its visibility, and answers any other viewer of a hidden post not-found.
C3_AuthorSeesOwnHiddenPost ==
    (resp.view = "post_detail" /\ resp.target \in DOMAIN posts) =>
        /\ resp.user = posts[resp.target].author => resp.status = "200"
        /\ (/\ resp.user # posts[resp.target].author
            /\ ~(/\ PublishedInPast(resp.target)
                 /\ CategoryPublished(posts[resp.target].category)))
           => resp.status = "404"

\* C4: an unpublished post is in no index feed and no category listing, and
\* it is in the listing of its author's profile page requested by the author.
C4_UnpublishedOnlyOnOwnProfile ==
    /\ resp.view \in {"index", "category_posts"} =>
          \A p \in DOMAIN posts : ~posts[p].is_published => p \notin Listed
    /\ (resp.view = "profile" /\ resp.user = resp.target) =>
          \A p \in DOMAIN posts :
              (posts[p].author = resp.user /\ ~posts[p].is_published) => p \in Listed

C4_Witness ==
    /\ resp.view = "profile"
    /\ resp.user = resp.target
    /\ \E p \in Listed : ~posts[p].is_published /\ posts[p].author = resp.user

\* C7: a request to the edit or delete route of posts, by any method, leaves
\* every post whose author is not the requester stored and unchanged.
C7_NonAuthorNeverMutatesPost ==
    [][resp'.view \in {"edit_post", "delete_post"} =>
          \A p \in DOMAIN posts :
              posts[p].author # resp'.user =>
                  /\ p \in DOMAIN posts'
                  /\ posts'[p] = posts[p]
                  /\ resp'.target = p => posts' = posts]_vars

C7_Witness ==
    /\ resp.view \in {"edit_post", "delete_post"}
    /\ resp.target \in DOMAIN posts
    /\ resp.user \in Users
    /\ resp.user # posts[resp.target].author
    /\ resp.status = "403"

\* C8: a request to the edit or delete route of a comment by someone who is
\* not its author leaves the comments as they were and is answered
\* not-found, permission-denied or, for an anonymous requester, a redirect
\* to login.
C8_NonAuthorNeverMutatesComment ==
    [][resp'.view \in {"edit_comment", "delete_comment"} =>
          \A c \in DOMAIN comments :
              (resp'.target = c /\ resp'.user # comments[c].author) =>
                  /\ comments' = comments
                  /\ resp'.status \in {"403", "404", "302:login"}
                  /\ resp'.status = "302:login" <=> resp'.user = Anonymous]_vars

C8_Witness ==
    /\ resp.view = "delete_comment"
    /\ resp.target \in DOMAIN comments
    /\ resp.user \in Users
    /\ resp.user # comments[resp.target].author
    /\ resp.status = "403"

\* C9: every post listed on the profile page of a user, rendered for anyone
\* else, is published, not dated in the future, and in no category or a
\* published one.
C9_ProfileListsOnlyVisible ==
    (resp.view = "profile" /\ resp.status = "200" /\ resp.user # resp.target) =>
        \A p \in Listed :
            /\ PublishedInPast(p)
            /\ \/ posts[p].category = None
               \/ categories[posts[p].category].is_published

\* C10: a post is created only by create_post, for an authenticated
\* requester who becomes its author whatever the form submits; no request
\* changes the author of a stored post; an anonymous request creates no post
\* and no comment.
C10_AuthorIsCreator ==
    [][/\ \A p \in DOMAIN posts' \ DOMAIN posts :
              /\ resp'.view = "create_post"
              /\ resp'.user \in Users
              /\ posts'[p].author = resp'.user
       /\ \A p \in DOMAIN posts' \cap DOMAIN posts :
              posts'[p].author = posts[p].author
       /\ resp'.user = Anonymous =>
              /\ DOMAIN posts' \subseteq DOMAIN posts
              /\ DOMAIN comments' \subseteq DOMAIN comments]_vars

C10_Witness ==
    /\ resp.view = "create_post"
    /\ resp.status = "302:profile"
    /\ resp.form_author \in Users
    /\ resp.form_author # resp.user
    /\ posts[resp.target].author = resp.user

\* ---------------------------------------------------- pagination claims
LastPage(n, s) == (n + s - 1) \div s

RECURSIVE PagesUpTo(_, _, _)
PagesUpTo(object_list, per_page, N) ==
    IF N = 0 THEN <<>>
    ELSE PagesUpTo(object_list, per_page, N - 1)
         \o paginate_queryset(PageInt(N), object_list, per_page).items

\* C5: page N of n items at page size s, 1 <= N <= ceil(n/s), holds s items,
\* or the remaining n - s*(N-1) on the last page, in the order of the set;
\* the pages 1..ceil(n/s) one after another are the whole ordered set.
C5_PagesPartition ==
    LET n == Len(pg.object_list)
        s == pg.per_page
        N == pg.param.n
    IN  pg.called =>
            /\ (pg.param.kind = "int" /\ N \in 1..LastPage(n, s)) =>
                  /\ pg.page.status = "ok"
                  /\ Len(pg.page.items) = IF N < LastPage(n, s) THEN s ELSE n - s * (N - 1)
                  /\ \A i \in 1..Len(pg.page.items) :
                        pg.page.items[i] = pg.object_list[s * (N - 1) + i]
            /\ PagesUpTo(pg.object_list, s, LastPage(n, s)) = pg.object_list

C5_Witness ==
    /\ pg.called
    /\ Len(pg.object_list) = 7
    /\ pg.per_page = 5
    /\ pg.param = PageInt(2)
    /\ pg.page.items = <<6, 7>>

\* C6 (as stated): no page number is answered with an error; a number below
\* 1 gets page 1, a number above the last page gets the last page, a missing
\* number gets page 1.
C6_ClampToNearest ==
    pg.called =>
        /\ pg.page.status = "ok"
        /\ (pg.param.kind = "int" /\ pg.param.n < 1) => pg.page.number = 1
        /\ (pg.param.kind = "int"
            /\ pg.param.n > NumPages(Len(pg.object_list), pg.per_page))
              => pg.page.number = NumPages(Len(pg.object_list), pg.per_page)
        /\ pg.param.kind = "missing" => pg.page.number = 1

\* C6 (amended): no page number is answered with an error; a number below 1
\* or above the last page gets the last page, a missing or non-numeric
\* number gets page 1.
C6_OutOfRangeGetsLastPage ==
    LET last == NumPages(Len(pg.object_list), pg.per_page)
    IN  pg.called =>
            /\ pg.page.status = "ok"
            /\ pg.page.number \in 1..last
            /\ (pg.param.kind = "int" /\ (pg.param.n < 1 \/ pg.param.n > last))
                  => /\ pg.page.number = last
                     /\ pg.page.items = Page(pg.object_list, pg.per_page, last).items
            /\ pg.param.kind \in {"missing", "text"} => pg.page.number = 1

C6_Witness ==
    /\ pg.called
    /\ pg.param = PageInt(0)
    /\ NumPages(Len(pg.object_list), pg.per_page) = 2
    /\ pg.page.number = 2
    /\ pg.page.items # <<>>

\* C11: add_comment stores a comment of a requester who is not the author of
\* the post only when the post passes the visibility filter at that moment:
\* published, not dated in the future, in a category that is published.
C11_CommentOnlyOnVisiblePost ==
    [][\A c \in DOMAIN comments' \ DOMAIN comments :
          comments'[c].author # posts[comments'[c].post].author =>
              /\ PublishedInPast(comments'[c].post)
              /\ CategoryPublished(posts[comments'[c].post].category)]_vars
====
